---- MODULE Spec2Model ----
(***************************************************************************)
(* Model of SambaManager (samba-setup.py): the smb.conf text, its single   *)
(* backup slot, and the add_share / remove_share / list_shares handlers.   *)
(*                                                                         *)
(* A text file is a sequence of lines; a line is a sequence of one-char    *)
(* strings that ends with "\n", except possibly the last line of a file    *)
(* (what Python's readlines() returns, and what writelines() writes back). *)
(***************************************************************************)
EXTENDS Naturals, Sequences, FiniteSets

VARIABLES
    confExists,  \* os.path.exists(SMB_CONF)
    conf,        \* content of SMB_CONF (<<>> when it does not exist)
    bakExists,   \* os.path.exists(SMB_CONF_BAK)
    bak,         \* content of SMB_CONF_BAK
    tmp,         \* content of the NamedTemporaryFile of the running remove_share
    pc,          \* position of the running handler ("idle": none running)
    op,          \* the running (or last) call: kind, arguments, euid = 0
    pre,         \* history: the two files as they were when the call started
    ret,         \* outcome of the last finished call: status and list_shares' dict
    nops,        \* number of calls started
    added        \* history: per share name, the number of add_share appends done

vars == <<confExists, conf, bakExists, bak, tmp, pc, op, pre, ret, nops, added>>

\* Bound on the number of calls in one behaviour.
MaxOps == 3

----------------------------------------------------------------------------
(* Strings *)

NL == "\n"

\* str.strip(): the characters Python treats as whitespace, among those used.
Whitespace == {" ", NL, "\t"}

RECURSIVE LStrip(_, _)
LStrip(s, drop) ==
    IF s # <<>> /\ Head(s) \in drop THEN LStrip(Tail(s), drop) ELSE s

RECURSIVE RStrip(_, _)
RStrip(s, drop) ==
    IF s # <<>> /\ s[Len(s)] \in drop
    THEN RStrip(SubSeq(s, 1, Len(s) - 1), drop) ELSE s

StripChars(s, drop) == RStrip(LStrip(s, drop), drop)

\* line.strip()
Strip(s) == StripChars(s, Whitespace)

\* line_strip.strip("[]")
StripBrackets(s) == StripChars(s, {"[", "]"})

LowerChar(c) ==
    CASE c = "A" -> "a" [] c = "B" -> "b" [] c = "G" -> "g" [] c = "H" -> "h"
      [] c = "L" -> "l" [] c = "O" -> "o" [] c = "P" -> "p" [] c = "T" -> "t"
      [] OTHER -> c

\* str.lower()
Lower(s) == [i \in 1..Len(s) |-> LowerChar(s[i])]

\* str.startswith(p)
StartsWith(s, p) == Len(s) >= Len(p) /\ SubSeq(s, 1, Len(p)) = p

\* stripped.startswith("[") and stripped.endswith("]")
IsHeader(s) == s # <<>> /\ s[1] = "[" /\ s[Len(s)] = "]"

PathKey == <<"p", "a", "t", "h">>
GlobalName == <<"g", "l", "o", "b", "a", "l">>

\* Variant: the comparison without lower().
IsGlobalExact(name) == name = GlobalName

\* name.lower() != "global"
IsGlobal(name) == Lower(name) = GlobalName

\* Variant: the pattern without its \s*, "path=(.*)".
PathMatchesNoSpace(s) ==
    /\ StartsWith(Lower(s), PathKey)
    /\ Len(s) >= 5
    /\ s[5] = "="

\* re.match(r"path\s*=\s*(.*)", line_strip, re.IGNORECASE): the match exists
\* iff, after "path" (any case) and optional whitespace, "=" follows; group(1)
\* is what follows "=" and further whitespace.
AfterPath(s) == LStrip(SubSeq(s, 5, Len(s)), Whitespace)
PathMatches(s) ==
    /\ StartsWith(Lower(s), PathKey)
    /\ AfterPath(s) # <<>>
    /\ Head(AfterPath(s)) = "="
PathGroup(s) == LStrip(Tail(AfterPath(s)), Whitespace)

\* str(Path(shared_dir)) for an absolute path without "." components and
\* without a leading "//": repeated "/" collapse and a trailing "/" is dropped.
RECURSIVE Collapse(_)
Collapse(p) ==
    IF Len(p) <= 1 THEN p
    ELSE IF p[1] = "/" /\ p[2] = "/" THEN Collapse(Tail(p))
    ELSE <<p[1]>> \o Collapse(Tail(p))

PathStr(p) ==
    LET c == Collapse(p)
    IN  IF Len(c) > 1 /\ c[Len(c)] = "/" THEN SubSeq(c, 1, Len(c) - 1) ELSE c

----------------------------------------------------------------------------
(* Inputs *)

NameA == <<"a">>
NameB == <<"b">>
NameGlobal == <<"G", "l", "o", "b", "a", "l">>
Names == {NameA, NameB, NameGlobal}

\* The shares add_share is called with: a name and the directory it exports
\* (written with a trailing "/" in two of them).
Shares ==
    { [name |-> NameA, path |-> <<"/", "d">>],
      [name |-> NameA, path |-> <<"/", "e", "/">>],
      [name |-> NameB, path |-> <<"/", "e", "/">>],
      [name |-> NameGlobal, path |-> <<"/", "d">>] }

Ln(s) == s \o <<NL>>

\* Contents smb.conf may hold before the first call.
ConfPlain ==
    << Ln(<<"#", "c">>),
       Ln(<<"[", "g", "l", "o", "b", "a", "l", "]">>),
       Ln(<<" ", "w", "=", "1">>),
       Ln(<<"[", "b", "]">>),
       <<" ", "p", "a", "t", "h", " ", "=", " ", "/", "b">> >>

ConfOdd ==
    << Ln(<<"[", "b", "]">>),
       Ln(<<" ", "k", "=", "v">>),
       Ln(<<" ", "[", "a", "]", "[", "b", "]">>),
       Ln(<<"P", "A", "T", "H", "=", "/", "x">>),
       Ln(<<"[", "a", "]", " ", "#", "c">>),
       Ln(<<"p", "a", "t", "h", "s", "=", "/", "y">>) >>

InitConfs == {ConfPlain, ConfOdd}

StaleBak == << Ln(<<"#", "o", "l", "d">>) >>

----------------------------------------------------------------------------
(* list_shares *)

NoShares == [n \in {} |-> <<>>]

Put(shares, name, path) ==
    [n \in DOMAIN shares \cup {name} |-> IF n = name THEN path ELSE shares[n]]

\* One iteration of the loop of list_shares; cur is current_share
\* (cur.set = FALSE: None).
ListStep(st, line) ==
    LET s == Strip(line)
    IN  IF IsHeader(s)
        THEN LET name == StripBrackets(s)
             IN  IF ~IsGlobal(name)
                 THEN [shares |-> Put(st.shares, name, <<>>),
                       cur |-> [set |-> TRUE, name |-> name]]
                 ELSE st
        ELSE IF st.cur.set /\ st.cur.name # <<>> /\ StartsWith(Lower(s), PathKey)
        THEN IF PathMatches(s)
             THEN [st EXCEPT !.shares = Put(st.shares, st.cur.name, PathGroup(s))]
             ELSE st
        ELSE st

RECURSIVE ListLoop(_, _, _)
ListLoop(lines, i, st) ==
    IF i > Len(lines) THEN st ELSE ListLoop(lines, i + 1, ListStep(st, lines[i]))

\* list_shares(): share_name -> path
ListShares(exists, lines) ==
    IF ~exists THEN NoShares
    ELSE ListLoop(lines, 1,
                  [shares |-> NoShares, cur |-> [set |-> FALSE, name |-> <<>>]]).shares

----------------------------------------------------------------------------
(* add_share *)

\* The lines of smb_conf_block.
Block(name, path, guest) ==
    << <<NL>>,
       <<NL>>,
       Ln(<<"[">> \o name \o <<"]">>),
       Ln(<<" ", " ", " ", "p", "a", "t", "h", " ", "=", " ">> \o PathStr(path)),
       Ln(<<" ", " ", " ", "b", "r", "o", "w", "s", "e", "a", "b", "l", "e",
            " ", "=", " ", "y", "e", "s">>),
       Ln(<<" ", " ", " ", "w", "r", "i", "t", "e", "a", "b", "l", "e",
            " ", "=", " ", "y", "e", "s">>) >>
    \o (IF guest
        THEN << Ln(<<" ", " ", " ", "g", "u", "e", "s", "t", " ", "o", "k",
                     " ", "=", " ", "y", "e", "s">>) >>
        ELSE << Ln(<<" ", " ", " ", "o", "n", "l", "y", " ", "g", "u", "e", "s", "t",
                     " ", "=", " ", "n", "o">>) >>)
    \o << Ln(<<" ", " ", " ", "c", "r", "e", "a", "t", "e", " ", "m", "a", "s", "k",
               " ", "=", " ", "0", "7", "7", "7">>),
          Ln(<<" ", " ", " ", "d", "i", "r", "e", "c", "t", "o", "r", "y", " ",
               "m", "a", "s", "k", " ", "=", " ", "0", "7", "7", "7">>) >>
    \o (IF guest THEN <<>>
        ELSE << Ln(<<" ", " ", " ", "p", "u", "b", "l", "i", "c",
                     " ", "=", " ", "y", "e", "s">>) >>)

EndsWithNL(line) == line # <<>> /\ line[Len(line)] = NL

\* open(path, "a").write(content) / tee -a: the text grows by the block; an
\* unterminated last line is continued by the first line of the block.
AppendText(lines, block) ==
    IF lines # <<>> /\ ~EndsWithNL(lines[Len(lines)])
    THEN SubSeq(lines, 1, Len(lines) - 1)
         \o << lines[Len(lines)] \o Head(block) >> \o Tail(block)
    ELSE lines \o block

----------------------------------------------------------------------------
(* remove_share *)

Header(name) == <<"[">> \o name \o <<"]">>

\* Variant: the test without the brackets, stripped.startswith(share_name).
MatchesShareNoBrackets(stripped, name) == StartsWith(stripped, name)

\* stripped.startswith(f"[{share_name}]")
MatchesShare(stripped, name) == StartsWith(stripped, Header(name))

\* One iteration of the loop that builds new_lines.
RemoveStep(st, line, name) ==
    LET stripped == Strip(line)
    IN  IF MatchesShare(stripped, name)
        THEN [st EXCEPT !.in_block = TRUE]
        ELSE LET inb == st.in_block /\ ~IsHeader(stripped)
             IN  [in_block |-> inb,
                  new_lines |-> IF inb THEN st.new_lines
                                ELSE Append(st.new_lines, line)]

RECURSIVE RemoveLoop(_, _, _, _)
RemoveLoop(lines, i, st, name) ==
    IF i > Len(lines) THEN st
    ELSE RemoveLoop(lines, i + 1, RemoveStep(st, lines[i], name), name)

\* Variant: a loop that omits the first matching section only.
RECURSIVE FirstOnlyLoop(_, _, _, _, _)
FirstOnlyLoop(lines, i, in_block, removed, name) ==
    IF i > Len(lines) THEN <<>>
    ELSE LET stripped == Strip(lines[i])
         IN  IF ~removed /\ StartsWith(stripped, <<"[">> \o name \o <<"]">>)
             THEN FirstOnlyLoop(lines, i + 1, TRUE, TRUE, name)
             ELSE LET inb == in_block /\ ~IsHeader(stripped)
                  IN  (IF inb THEN <<>> ELSE <<lines[i]>>)
                      \o FirstOnlyLoop(lines, i + 1, inb, removed, name)

NewLinesFirstOnly(lines, name) == FirstOnlyLoop(lines, 1, FALSE, FALSE, name)

\* new_lines of remove_share(share_name)
NewLines(lines, name) ==
    RemoveLoop(lines, 1, [in_block |-> FALSE, new_lines |-> <<>>], name).new_lines

----------------------------------------------------------------------------
(* State *)

NoOp == [kind |-> "none", name |-> <<>>, path |-> <<>>, guest |-> FALSE,
         root |-> FALSE]

Snapshot == [exists |-> confExists, conf |-> conf,
             bakExists |-> bakExists, bak |-> bak]

Running == [status |-> "running", shares |-> NoShares]
Outcome(status) == [status |-> status, shares |-> NoShares]

Init ==
    /\ \/ confExists = FALSE /\ conf = <<>>
       \/ confExists = TRUE /\ conf \in InitConfs
    /\ \/ bakExists = FALSE /\ bak = <<>>
       \/ bakExists = TRUE /\ bak = StaleBak
    /\ tmp = <<>>
    /\ pc = "idle"
    /\ op = NoOp
    /\ pre = Snapshot
    /\ ret = Outcome("none")
    /\ nops = 0
    /\ added = [n \in Names |-> 0]

\* A call starts: a new process, with the euid it happens to have.
Begin(o, next) ==
    /\ pc = "idle"
    /\ nops < MaxOps
    /\ nops' = nops + 1
    /\ op' = o
    /\ pre' = Snapshot
    /\ pc' = next

\* The handler returns.
Return(r) ==
    /\ pc' = "idle"
    /\ ret' = r

\* Variant: a backup that is taken only while no backup exists yet.
BackupConfKeepFirst ==
    IF confExists /\ ~bakExists
    THEN bakExists' = TRUE /\ bak' = conf
    ELSE UNCHANGED <<bakExists, bak>>

\* backup_conf(): privileged_copy(smb_conf, smb_conf_bak) when smb_conf exists,
\* a warning otherwise.
BackupConf ==
    IF confExists
    THEN bakExists' = TRUE /\ bak' = conf
    ELSE UNCHANGED <<bakExists, bak>>

----------------------------------------------------------------------------
(* list_shares() *)

ListSharesCall ==
    /\ Begin([NoOp EXCEPT !.kind = "list"], "idle")
    /\ ret' = [status |-> "ok", shares |-> ListShares(confExists, conf)]
    /\ UNCHANGED <<confExists, conf, bakExists, bak, tmp, added>>

----------------------------------------------------------------------------
(* add_share(username, shared_dir, share_name, guest) *)

\* mkdir, ensure_system_user, chown, chmod: nothing of the two files changes.
\* The euid is not kept: privileged_copy and privileged_write_append leave the
\* same files behind as root (shutil.copy2, open "a") and through sudo (cp, tee -a).
AddShareStart(name, path, guest) ==
    /\ Begin([NoOp EXCEPT !.kind = "add", !.name = name, !.path = path,
                          !.guest = guest], "add_backup")
    /\ ret' = Running
    /\ UNCHANGED <<confExists, conf, bakExists, bak, tmp, added>>

AddShareBackup ==
    /\ pc = "add_backup"
    /\ BackupConf
    /\ pc' = "add_append"
    /\ UNCHANGED <<confExists, conf, tmp, op, pre, ret, nops, added>>

\* privileged_write_append(smb_conf, smb_conf_block); a guest share is done,
\* the other goes on to smbpasswd.
AddShareAppend ==
    /\ pc = "add_append"
    /\ conf' = AppendText(conf, Block(op.name, op.path, op.guest))
    /\ confExists' = TRUE
    /\ added' = [added EXCEPT ![op.name] = @ + 1]
    /\ IF op.guest
       THEN Return(Outcome("ok"))
       ELSE pc' = "add_passwd" /\ UNCHANGED ret
    /\ UNCHANGED <<bakExists, bak, tmp, op, pre, nops>>

\* smbpasswd -a, smbpasswd -e
AddSharePasswd ==
    /\ pc = "add_passwd"
    /\ Return(Outcome("ok"))
    /\ UNCHANGED <<confExists, conf, bakExists, bak, tmp, op, pre, nops, added>>

----------------------------------------------------------------------------
(* remove_share(share_name) *)

\* Variant: remove_share without its os.path.exists test.
RemoveShareStartUnchecked(name, root) ==
    /\ Begin([NoOp EXCEPT !.kind = "remove", !.name = name, !.root = root],
             "rm_backup")
    /\ ret' = Running
    /\ UNCHANGED <<confExists, conf, bakExists, bak, tmp, added>>

\* if not os.path.exists(smb_conf): raise ManagerError
RemoveShareStart(name, root) ==
    /\ IF ~confExists
       THEN /\ Begin([NoOp EXCEPT !.kind = "remove", !.name = name,
                                  !.root = root], "idle")
            /\ ret' = Outcome("ManagerError")
       ELSE /\ Begin([NoOp EXCEPT !.kind = "remove", !.name = name,
                                  !.root = root], "rm_backup")
            /\ ret' = Running
    /\ UNCHANGED <<confExists, conf, bakExists, bak, tmp, added>>

RemoveShareBackup ==
    /\ pc = "rm_backup"
    /\ BackupConf
    /\ pc' = "rm_write"
    /\ UNCHANGED <<confExists, conf, tmp, op, pre, ret, nops, added>>

\* readlines(), the loop, and the temporary file written and closed.
RemoveShareWriteTmp ==
    /\ pc = "rm_write"
    /\ tmp' = NewLines(conf, op.name)
    /\ pc' = "rm_replace"
    /\ UNCHANGED <<confExists, conf, bakExists, bak, op, pre, ret, nops, added>>

\* privileged_replace_file as root, when the temporary directory and smb.conf
\* are on one filesystem: shutil.move is one os.rename.
ReplaceRename ==
    /\ pc = "rm_replace"
    /\ op.root
    /\ conf' = tmp
    /\ tmp' = <<>>
    /\ Return(Outcome("ok"))
    /\ UNCHANGED <<confExists, bakExists, bak, op, pre, nops, added>>

\* Otherwise a copy (shutil.move's fallback across filesystems as root, sudo cp
\* as another user): smb.conf is opened for writing, which truncates it ...
ReplaceTruncate ==
    /\ pc = "rm_replace"
    /\ conf' = <<>>
    /\ pc' = "rm_copy"
    /\ UNCHANGED <<confExists, bakExists, bak, tmp, op, pre, ret, nops, added>>

\* ... then the content is written and the temporary file unlinked.
ReplaceCopy ==
    /\ pc = "rm_copy"
    /\ conf' = tmp
    /\ tmp' = <<>>
    /\ Return(Outcome("ok"))
    /\ UNCHANGED <<confExists, bakExists, bak, op, pre, nops, added>>

----------------------------------------------------------------------------
\* The process dies, or a command run through run() fails (ManagerError):
\* the handler stops where it is and nothing is rolled back.
Interrupt ==
    /\ pc # "idle"
    /\ Return(Outcome("interrupted"))
    /\ tmp' = <<>>
    /\ UNCHANGED <<confExists, conf, bakExists, bak, op, pre, nops, added>>

Next ==
    \/ ListSharesCall
    \/ \E share \in Shares, guest \in BOOLEAN :
          AddShareStart(share.name, share.path, guest)
    \/ AddShareBackup
    \/ AddShareAppend
    \/ AddSharePasswd
    \/ \E name \in Names, root \in BOOLEAN :
          RemoveShareStart(name, root)
    \/ RemoveShareBackup
    \/ RemoveShareWriteTmp
    \/ ReplaceRename
    \/ ReplaceTruncate
    \/ ReplaceCopy
    \/ Interrupt

Spec == Init /\ [][Next]_vars

----------------------------------------------------------------------------
(* What the claims speak of *)

\* The last call was of this kind and returned normally.
Done(kind) == pc = "idle" /\ op.kind = kind /\ ret.status = "ok"

\* What list() returns in the current state.
Listing == ListShares(confExists, conf)

\* Section grammar of the design: a boundary is a line whose trimmed form is
\* "[" + nonempty text + "]"; it matches a name when it is exactly "[name]".
IsBoundary(s) == Len(s) >= 3 /\ s[1] = "[" /\ s[Len(s)] = "]"
IsExactHeader(line, name) == Strip(line) = Header(name)
IsPrefixOnly(line, name) ==
    StartsWith(Strip(line), Header(name)) /\ Strip(line) # Header(name)

RECURSIVE CountExact(_, _)
CountExact(lines, name) ==
    IF lines = <<>> THEN 0
    ELSE (IF IsExactHeader(Head(lines), name) THEN 1 ELSE 0)
         + CountExact(Tail(lines), name)

RECURSIVE CountPrefixOnly(_, _)
CountPrefixOnly(lines, name) ==
    IF lines = <<>> THEN 0
    ELSE (IF IsPrefixOnly(Head(lines), name) THEN 1 ELSE 0)
         + CountPrefixOnly(Tail(lines), name)

\* The lines that belong to no section whose header is exactly "[name]".
RECURSIVE OutsideFrom(_, _, _, _)
OutsideFrom(lines, i, skip, name) ==
    IF i > Len(lines) THEN <<>>
    ELSE LET s == Strip(lines[i])
             sk == IF IsBoundary(s) THEN s = Header(name) ELSE skip
         IN  (IF sk THEN <<>> ELSE <<lines[i]>>)
             \o OutsideFrom(lines, i + 1, sk, name)

OutsideSection(lines, name) == OutsideFrom(lines, 1, FALSE, name)

\* The listing of the design: every boundary opens a section, "global"
\* included (it is only left out of the result), and a section's path is its
\* first "path = value" line.
RECURSIVE DesignList(_, _, _, _, _)
DesignList(lines, i, shares, cur, found) ==
    IF i > Len(lines) THEN shares
    ELSE LET s == Strip(lines[i])
         IN  IF IsHeader(s)
             THEN LET name == StripBrackets(s)
                  IN  IF Lower(name) = GlobalName
                      THEN DesignList(lines, i + 1, shares,
                                      [set |-> FALSE, name |-> <<>>], FALSE)
                      ELSE DesignList(lines, i + 1, Put(shares, name, <<>>),
                                      [set |-> TRUE, name |-> name], FALSE)
             ELSE IF cur.set /\ ~found /\ PathMatches(s)
             THEN DesignList(lines, i + 1, Put(shares, cur.name, PathGroup(s)),
                             cur, TRUE)
             ELSE DesignList(lines, i + 1, shares, cur, found)

DesignListing(exists, lines) ==
    IF ~exists THEN NoShares
    ELSE DesignList(lines, 1, NoShares, [set |-> FALSE, name |-> <<>>], FALSE)

----------------------------------------------------------------------------
\* C1 (as stated): after every add or remove that returned, the backup exists
\* and holds the config content as it was when the call started, the empty
\* content of a config file that did not exist included.
C1_BackupAlwaysOverwritten ==
    (Done("add") \/ Done("remove")) => bakExists /\ bak = pre.conf

\* C1 (amended): once an add or remove has changed the config file or has
\* returned, the backup holds the config content as it was when the call
\* started if the config file existed then; if it did not exist, the backup
\* is what it was before the call (absent, or an older generation).
C1_BackupBeforeMutate ==
    (/\ op.kind \in {"add", "remove"}
     /\ \/ pc = "idle" /\ ret.status = "ok"
        \/ conf # pre.conf
        \/ confExists # pre.exists)
    => IF pre.exists
       THEN bakExists /\ bak = pre.conf
       ELSE bakExists = pre.bakExists /\ bak = pre.bak

C1_Witness ==
    /\ Done("remove")
    /\ pre.exists /\ pre.bakExists
    /\ conf # pre.conf
    /\ bak = pre.conf /\ bak # pre.bak

C4_RemoveKeepsOtherLines ==
    Done("remove")
    => OutsideSection(conf, op.name) = OutsideSection(pre.conf, op.name)

\* C5: while remove runs, and after it, the config file holds the complete old
\* content or the complete new content.
C5_ReplaceAllOrNothing ==
    (op.kind = "remove" /\ pre.exists)
    => conf = pre.conf \/ conf = NewLines(pre.conf, op.name)

\* C6: no key of a mapping returned by list() is "global" in any letter case.
C6_GlobalNeverListed ==
    (pc = "idle" /\ op.kind = "list")
    => \A k \in DOMAIN ret.shares : Lower(k) # GlobalName

C6_Witness ==
    /\ pc = "idle" /\ op.kind = "list"
    /\ added[NameGlobal] >= 1
    /\ CountExact(conf, NameGlobal) >= 1
    /\ ret.shares # NoShares

\* C7: when the config file does not exist, list() returns the empty mapping,
\* and remove(name) ends at once with ManagerError, the config file still
\* absent and the backup as it was.
C7_MissingConfig ==
    ~pre.exists
    => /\ op.kind = "list" => ret = [status |-> "ok", shares |-> NoShares]
       /\ op.kind = "remove" =>
            /\ pc = "idle"
            /\ ret.status = "ManagerError"
            /\ ~confExists /\ conf = <<>>
            /\ bakExists = pre.bakExists /\ bak = pre.bak

C7_Witness ==
    /\ op.kind = "remove"
    /\ ~pre.exists /\ pre.bakExists
    /\ ret.status = "ManagerError"
    /\ bak = StaleBak

\* C8 (as stated): when the config holds n >= 1 sections with header
\* "[name]", remove(name) leaves n - 1 of them.
C8_RemoveOmitsFirstOnly ==
    (Done("remove") /\ CountExact(pre.conf, op.name) >= 1)
    => CountExact(conf, op.name) = CountExact(pre.conf, op.name) - 1

\* C8 (amended): remove(name) omits every section with header "[name]": none
\* of the n is left.
C8_RemoveOmitsEverySection ==
    Done("remove") => CountExact(conf, op.name) = 0

C8_Witness ==
    /\ Done("remove")
    /\ CountExact(pre.conf, op.name) >= 2
    /\ CountExact(conf, op.name) = 0

\* C9: remove(name) leaves in place the lines that begin with "[name]" and go
\* on after the closing bracket (outside the sections named exactly name).
C9_RemoveNeedsExactHeader ==
    Done("remove")
    => CountPrefixOnly(conf, op.name)
         = CountPrefixOnly(OutsideSection(pre.conf, op.name), op.name)

\* C10: list() reports, for each share, the first path line of the share's
\* own section, or the empty string.
C10_PathIsFirstOfOwnSection ==
    (pc = "idle" /\ op.kind = "list")
    => ret.shares = DesignListing(confExists, conf)

====
